---------------------------- MODULE Spec2Model ----------------------------
(***************************************************************************)
(* A model of the duplicate-matching code of lunchmoney-python-utils:      *)
(*   - lib/find_duplicates.py: filter_matches_by_account, find_duplicates  *)
(*     as run by compare_plaid_with_mint.py with the report_findings       *)
(*     callback (specification Spec);                                      *)
(*   - the amount/date test and the account filter as pure functions over  *)
(*     enumerated inputs (specification SpecFinder);                       *)
(*   - lib/find_and_process_dups.py: the interactive detector of           *)
(*     duplicates inside one set of transactions (specification SpecSelf). *)
(*                                                                         *)
(* Dates are day numbers (pd.Timedelta(days=n) is +n), amounts are in      *)
(* cents, strings that the code lower-cases, strips, joins or splits are   *)
(* sequences of one-character strings.                                     *)
(***************************************************************************)
EXTENDS Integers, Sequences, FiniteSets, TLC

(***************************************************************************)
(* Strings                                                                 *)
(***************************************************************************)
UpperChars == <<"A","B","C","D","E","F","G","H","I","J","K","L","M",
                "N","O","P","Q","R","S","T","U","V","W","X","Y","Z">>

LowerChars == <<"a","b","c","d","e","f","g","h","i","j","k","l","m",
                "n","o","p","q","r","s","t","u","v","w","x","y","z">>

\* str.lower() on one character
LowerChar(c) ==
    IF \E i \in 1..Len(UpperChars) : UpperChars[i] = c
    THEN LowerChars[CHOOSE i \in 1..Len(UpperChars) : UpperChars[i] = c]
    ELSE c

\* str.lower()
str_lower(s) == [i \in 1..Len(s) |-> LowerChar(s[i])]

SetMin(S) == CHOOSE x \in S : \A y \in S : x <= y

SetMax(S) == CHOOSE x \in S : \A y \in S : y <= x

\* str.strip(): leading and trailing blanks removed, inner ones kept
str_strip(s) ==
    LET solid == {i \in 1..Len(s) : s[i] # " "}
    IN  IF solid = {} THEN <<>> ELSE SubSeq(s, SetMin(solid), SetMax(solid))

\* The account names of the runs
ChaseChecking == <<"C","h","a","s","e"," ","C","h","e","c","k","i","n","g">>

ChaseCheckingPadded == <<" ">> \o ChaseChecking \o <<" ">>

chase_checking == str_lower(ChaseChecking)

Chk1234 == <<"C","H","K",".",".",".","1","2","3","4">>

chk1234_padded == str_lower(Chk1234) \o <<" ">>

ChaseChk == <<"C","h","a","s","e"," ","C","h","k">>

chase_chk == str_lower(ChaseChk)

Savings == <<"S","a","v","i","n","g","s">>

savings_padded == <<" ">> \o str_lower(Savings)

(***************************************************************************)
(* Data frames: a frame is a function from its index labels to rows; a     *)
(* Mint row is a function from column names to values.                     *)
(***************************************************************************)
NoAction == "None"

NoRelated == -1

Restrict(df, labels) == [l \in labels |-> df[l]]

MintRow(date, amount, type, account, action, related_id) ==
    ("Date" :> date) @@ ("Amount" :> amount) @@ ("Transaction Type" :> type)
    @@ ("Account Name" :> account) @@ ("action" :> action)
    @@ ("related_id" :> related_id)

LunchmoneyOldRow(date, amount, account) ==
    ("date" :> date) @@ ("amount" :> amount)
    @@ ("account_display_name" :> account)

\* The alias table of account_name_map.csv: one column per LunchMoney account
\* name, holding the names the account has in the Mint export
NoTable == [present |-> FALSE, columns |-> <<>>]

AliasTable ==
    [present |-> TRUE, columns |-> (ChaseChecking :> <<Chk1234, ChaseChk>>)]

(***************************************************************************)
(* lib/find_duplicates.py                                                  *)
(***************************************************************************)
old_date_field(old_type) == IF old_type = "lunchmoney" THEN "date" ELSE "Date"

old_amount_field(old_type) ==
    IF old_type = "lunchmoney" THEN "amount" ELSE "Amount"

old_account_field(old_type) ==
    IF old_type = "lunchmoney" THEN "account_display_name" ELSE "Account Name"

Abs(x) == IF x < 0 THEN -x ELSE x

\* Mutant: the sign of the source amount is kept for Mint too
amount_to_match_signed(row, old_type) == row.amount

\* The amount looked for in old_df
amount_to_match(row, old_type) ==
    IF old_type = "lunchmoney" THEN row.amount ELSE Abs(row.amount)

\* Mutant: the window bounds are exclusive
date_in_window_exclusive(d, row, lookback_days, lookahead_days) ==
    /\ d < row.date + lookahead_days
    /\ d > row.date - lookback_days

\* The date test of the first selection
date_in_window(d, row, lookback_days, lookahead_days) ==
    /\ d <= row.date + lookahead_days
    /\ d >= row.date - lookback_days

\* The direction test applied to Mint rows
type_wanted(row) == IF row.amount > 0 THEN "debit" ELSE "credit"

\* The labels of the rows of old_df_copy selected on date, amount and, for
\* Mint, transaction type
amount_date_matches(old_df_copy, row, lookback_days, lookahead_days, old_type) ==
    LET first == {l \in DOMAIN old_df_copy :
                    /\ date_in_window(old_df_copy[l][old_date_field(old_type)],
                                      row, lookback_days, lookahead_days)
                    /\ old_df_copy[l][old_amount_field(old_type)]
                           = amount_to_match(row, old_type)}
    IN  IF old_type = "mint"
        THEN {l \in first : old_df_copy[l]["Transaction Type"] = type_wanted(row)}
        ELSE first

\* Which branch filter_matches_by_account takes
account_in_table(account, acct_name_df) ==
    /\ acct_name_df.present
    /\ str_strip(account) \in DOMAIN acct_name_df.columns

\* The column filter_matches_by_account reads the candidates' account from
account_column_read(account, acct_field_name, acct_name_df) ==
    IF account_in_table(account, acct_name_df)
    THEN acct_field_name
    ELSE "Account Name"

\* filter_matches_by_account raises KeyError when the frame lacks the column
filter_raises_KeyError(matches, account, acct_field_name, acct_name_df) ==
    \E l \in DOMAIN matches :
        account_column_read(account, acct_field_name, acct_name_df)
            \notin DOMAIN matches[l]

\* Mutant: the candidates' account names are stripped but not lower-cased
filter_matches_no_lower(matches, account, acct_field_name, acct_name_df) ==
    LET acct == str_strip(account)
    IN  IF account_in_table(account, acct_name_df)
        THEN LET processed_acct_names ==
                   {str_strip(str_lower(acct_name_df.columns[acct][k])) :
                        k \in 1..Len(acct_name_df.columns[acct])}
             IN  {l \in DOMAIN matches :
                    str_strip(matches[l][acct_field_name])
                        \in processed_acct_names}
        ELSE {l \in DOMAIN matches :
                str_strip(matches[l]["Account Name"]) = str_lower(acct)}

\* The labels filter_matches_by_account keeps
filter_matches_by_account(matches, account, acct_field_name, acct_name_df) ==
    LET acct == str_strip(account)
    IN  IF account_in_table(account, acct_name_df)
        THEN LET processed_acct_names ==
                   {str_strip(str_lower(acct_name_df.columns[acct][k])) :
                        k \in 1..Len(acct_name_df.columns[acct])}
             IN  {l \in DOMAIN matches :
                    str_strip(str_lower(matches[l][acct_field_name]))
                        \in processed_acct_names}
        ELSE {l \in DOMAIN matches :
                str_strip(str_lower(matches[l]["Account Name"]))
                    = str_lower(acct)}


(***************************************************************************)
(* compare_plaid_with_mint.py: the callback and the prepared frames        *)
(***************************************************************************)
\* Mutant: the LunchMoney row is linked to its own id
report_findings_lm_own_id(lm_df, lm_index, mint_index) ==
    [lm_df EXCEPT ![lm_index].action = "Duplicate",
                  ![lm_index].related_id = lm_df[lm_index].id]

\* report_findings, its write to the LunchMoney frame
report_findings_lm(lm_df, lm_index, mint_index) ==
    [lm_df EXCEPT ![lm_index].action = "Duplicate",
                  ![lm_index].related_id = mint_index]

\* Mutant: the write to the Mint frame marks every row, not the one it is given
report_findings_mint_all(lm_df, lm_index, mint_df, mint_index) ==
    [l \in DOMAIN mint_df \cup {mint_index} |->
        IF l \in DOMAIN mint_df
        THEN [mint_df[l] EXCEPT !["action"] = "Match",
                                !["related_id"] = lm_df[lm_index].id]
        ELSE MintRow("NaN", "NaN", "NaN", "NaN", "Match", lm_df[lm_index].id)]

\* report_findings, its write to the Mint frame; .loc on a label the frame
\* lacks adds a row whose other columns are NaN
report_findings_mint(lm_df, lm_index, mint_df, mint_index) ==
    [l \in DOMAIN mint_df \cup {mint_index} |->
        IF l # mint_index THEN mint_df[l]
        ELSE IF l \in DOMAIN mint_df
             THEN [mint_df[l] EXCEPT !["action"] = "Match",
                                     !["related_id"] = lm_df[lm_index].id]
             ELSE MintRow("NaN", "NaN", "NaN", "NaN", "Match",
                          lm_df[lm_index].id)]

\* The order sort_values puts the account names of the runs in
account_sort_order == <<Chk1234, ChaseChecking, ChaseChk, Savings>>

account_rank(name) ==
    CHOOSE i \in 1..Len(account_sort_order) : account_sort_order[i] = name

\* sort_by_account_date: account ascending, then date descending
sort_by_account_date(a_acct, a_date, b_acct, b_date) ==
    \/ account_rank(a_acct) < account_rank(b_acct)
    \/ a_acct = b_acct /\ a_date >= b_date

\* The window of lunchmoney_config: LOOKBACK_DAYS, LOOKAHEAD_DAYS
LOOKBACK_DAYS == 1

LOOKAHEAD_DAYS == 7

(***************************************************************************)
(* Bounds and inputs of the compare_plaid_with_mint run                    *)
(***************************************************************************)
MaxNew == 2

MaxOld == 2

NewIndex == 1..MaxNew

OldIndex == 0..(MaxOld - 1)

SrcAccounts == {ChaseChecking, Savings}

SrcDates == {10, 13}

SrcAmounts == {10000}

CmpAccounts == {Chk1234, Savings}

CmpDates == {8, 9, 12}

CmpTypes == {"debit"}

CmpAmounts == {10000}

\* The bound of the self-set detector's runs: transactions fetched
MaxTx == 3

\* The integers a typed text may stand for
IntTexts == 0..(MaxOld + MaxTx)

\* What the human may type at the prompt of find_duplicates
Responses == {"", "n"} \cup {ToString(n) : n \in 0..MaxOld}

\* int(user_response) raises ValueError unless the text is an integer
is_int(resp) == \E n \in IntTexts : ToString(n) = resp

int(resp) == CHOOSE n \in IntTexts : ToString(n) = resp

VARIABLES
    new_df,       \* the LunchMoney (plaid) frame, in iteration order
    old_df,       \* the Mint frame the callback writes to
    old_df_copy,  \* the labels left in find_duplicates' working copy
    pos,          \* the row of new_df the loop is at
    pc,           \* "iter", "prompt", "done" or "KeyError"
    matches,      \* the candidates on display while pc = "prompt"
    evals,        \* history: one entry per row whose candidates were computed
    calls,        \* history: the callback invocations <<new index, old index>>
    prompts,      \* history: the rows a prompt was issued for
    answers,      \* history: the responses typed, with the row and candidates
    new_df_start, \* history: new_df as passed to find_duplicates
    old_df_start  \* history: old_df as passed to find_duplicates

fdVars == <<new_df, old_df, old_df_copy, pos, pc, matches, evals, calls,
            prompts, answers, new_df_start, old_df_start>>

VARIABLES
    f_in,     \* the arguments the two selections are applied to
    f_stage,  \* "input", "selected", "filtered" or "KeyError" ("off": unused)
    f_first,  \* the labels amount_date_matches returned
    f_kept    \* the labels filter_matches_by_account returned

finderVars == <<f_in, f_stage, f_first, f_kept>>

VARIABLES
    tx_store,        \* the tag names Lunch Money holds for each transaction
    tx_df,           \* the frame find_duplicate_transactions was passed
    run,             \* which run of the detector this is (0: unused)
    account_names,   \* df["account_display_name"].unique()
    acct_pos,        \* the account the outer loop is at
    df_order,        \* the labels of df_to_search, in iteration order
    row_pos,         \* the row of df_to_search the inner loop is at
    df_copy,         \* the labels left in df_copy
    deleted_indices, \* the labels declared duplicates in this account
    dup_matches,     \* the group on display: rows [index, id, tags]
    tag_pos,         \* the row of the group interactive_tag_non_dup is at
    ids_to_delete,   \* the ids collected for the caller
    dup_pc,          \* "account", "iter", "prompt", "reprompt", "tagging",
                     \* "returned", "KeyError", "HTTPError" ("off": unused)
    tx_writes,       \* history: the updates sent to Lunch Money
    shown,           \* history: the groups displayed with a prompt
    none_groups      \* history: the groups the human answered "none" to

selfVars == <<tx_store, tx_df, run, account_names, acct_pos, df_order, row_pos,
              df_copy, deleted_indices, dup_matches, tag_pos, ids_to_delete,
              dup_pc, tx_writes, shown, none_groups>>

VARIABLES
    ov_new,      \* new_df: the transactions just fetched, by label
    ov_local,    \* local_df: the transactions of the local file, by label
    ov_pc,       \* "call", "prompt", "reprompt", "returned", "merged" or
                 \* "AttributeError" ("off": unused)
    ov_row,      \* the label of the row of overlap_df the loop is at
    ov_diff,     \* differences: the fields found different for that row
    ov_result,   \* what find_overlap_transactions returned
    ov_asked,    \* history: the labels of new_df the human was asked about
    ov_writes    \* history: the updates sent to Lunch Money

overlapVars == <<ov_new, ov_local, ov_pc, ov_row, ov_diff, ov_result,
                 ov_asked, ov_writes>>

vars == <<fdVars, finderVars, selfVars, overlapVars>>

OverlapOff ==
    /\ ov_new = <<>> /\ ov_local = <<>> /\ ov_pc = "off"
    /\ ov_row = 0 /\ ov_diff = {} /\ ov_result = [none |-> TRUE, index |-> {}]
    /\ ov_asked = <<>> /\ ov_writes = <<>>

SelfOff ==
    /\ tx_store = <<>> /\ tx_df = <<>> /\ run = 0
    /\ account_names = <<>> /\ acct_pos = 0
    /\ df_order = <<>> /\ row_pos = 0
    /\ df_copy = {} /\ deleted_indices = {}
    /\ dup_matches = <<>> /\ tag_pos = 0
    /\ ids_to_delete = <<>> /\ dup_pc = "off"
    /\ tx_writes = <<>> /\ shown = <<>> /\ none_groups = <<>>

FinderOff ==
    /\ f_in = <<>>
    /\ f_stage = "off"
    /\ f_first = {}
    /\ f_kept = {}

FdOff ==
    /\ new_df = <<>> /\ old_df = <<>> /\ old_df_copy = {}
    /\ new_df_start = <<>> /\ old_df_start = <<>>
    /\ pos = 0 /\ pc = "off" /\ matches = {}
    /\ evals = <<>> /\ calls = <<>> /\ prompts = <<>> /\ answers = <<>>

\* The frames prepare_plaid_dataset and prepare_mint_dataset hand over: sorted,
\* Mint labelled 0.., and either fresh (no action anywhere) or read back from
\* the files of an earlier analysis (rows linked as Duplicate and Match, the
\* other LunchMoney rows Investigate)
InitFrames(src, cmp, link) ==
    /\ new_df = [i \in NewIndex |->
                   [id |-> 100 + i, date |-> src[i].date,
                    amount |-> src[i].amount,
                    account_display_name |-> src[i].account,
                    action |-> IF link[i] # NoRelated THEN "Duplicate"
                               ELSE IF \A j \in NewIndex : link[j] = NoRelated
                                    THEN NoAction
                                    ELSE "Investigate",
                    related_id |-> link[i]]]
    /\ old_df = [l \in OldIndex |->
                   LET by == {i \in NewIndex : link[i] = l}
                   IN  MintRow(cmp[l].date, cmp[l].amount, cmp[l].type,
                               cmp[l].account,
                               IF by = {} THEN NoAction ELSE "Match",
                               IF by = {} THEN NoRelated
                               ELSE 100 + (CHOOSE i \in by : TRUE))]

Init ==
    /\ \E src \in [NewIndex -> [account : SrcAccounts, date : SrcDates,
                                amount : SrcAmounts]],
          cmp \in [OldIndex -> [account : CmpAccounts, date : CmpDates,
                                type : CmpTypes, amount : CmpAmounts]],
          link \in [NewIndex -> OldIndex \cup {NoRelated}] :
            /\ \A i, j \in NewIndex : i < j =>
                   sort_by_account_date(src[i].account, src[i].date,
                                        src[j].account, src[j].date)
            /\ \A k, l \in OldIndex : k < l =>
                   sort_by_account_date(cmp[k].account, cmp[k].date,
                                        cmp[l].account, cmp[l].date)
            /\ \A i, j \in NewIndex :
                   (i # j /\ link[i] # NoRelated) => link[i] # link[j]
            /\ InitFrames(src, cmp, link)
    /\ new_df_start = new_df
    /\ old_df_start = old_df
    /\ old_df_copy = DOMAIN old_df
    /\ pos = 1
    /\ pc = "iter"
    /\ matches = {}
    /\ evals = <<>>
    /\ calls = <<>>
    /\ prompts = <<>>
    /\ answers = <<>>
    /\ FinderOff
    /\ SelfOff
    /\ OverlapOff

(***************************************************************************)
(* find_duplicates(plaid_df, mint_df, report_findings, acct_name_df,       *)
(*                 LOOKBACK_DAYS, LOOKAHEAD_DAYS, "mint")                  *)
(***************************************************************************)
row == new_df[pos]

\* The first selection for the current row
first_matches ==
    amount_date_matches(Restrict(old_df, old_df_copy), row,
                        LOOKBACK_DAYS, LOOKAHEAD_DAYS, "mint")

\* Mutant: the account filter is called whatever the first selection holds
filter_invoked_always == TRUE

\* Whether filter_matches_by_account is called for the current row
filter_invoked == Cardinality(first_matches) > 0

\* The candidates of the current row
row_matches ==
    IF ~filter_invoked THEN first_matches
    ELSE filter_matches_by_account(Restrict(old_df, first_matches),
                                   row.account_display_name,
                                   old_account_field("mint"), AliasTable)

Evaluated ==
    Append(evals, [src |-> pos, copy |-> old_df_copy, first |-> first_matches,
                   filtered |-> filter_invoked, cands |-> row_matches,
                   ncalls |-> Len(calls)])

\* The row is skipped: a duplicate was already found for it
RowSkipped ==
    /\ pc = "iter" /\ pos \in NewIndex
    /\ row.action \in {"Delete", "Duplicate"}
    /\ pos' = pos + 1
    /\ UNCHANGED <<new_df, old_df, old_df_copy, pc, matches, evals, calls,
                   prompts, answers, new_df_start, old_df_start, finderVars, selfVars, overlapVars>>

\* Mutant: the final test on len(matches) sits inside the block of the
\* non-empty first selection
RowInvestigate_nested ==
    /\ pc = "iter" /\ pos \in NewIndex
    /\ row.action \notin {"Delete", "Duplicate"}
    /\ Cardinality(row_matches) <= 0
    /\ new_df' = IF filter_invoked
                 THEN [new_df EXCEPT ![pos].action = "Investigate"]
                 ELSE new_df
    /\ evals' = Evaluated
    /\ pos' = pos + 1
    /\ UNCHANGED <<old_df, old_df_copy, pc, matches, calls, prompts, answers,
                   new_df_start, old_df_start, finderVars, selfVars, overlapVars>>

\* No candidate: the row is marked Investigate
RowInvestigate ==
    /\ pc = "iter" /\ pos \in NewIndex
    /\ row.action \notin {"Delete", "Duplicate"}
    /\ Cardinality(row_matches) <= 0
    /\ new_df' = [new_df EXCEPT ![pos].action = "Investigate"]
    /\ evals' = Evaluated
    /\ pos' = pos + 1
    /\ UNCHANGED <<old_df, old_df_copy, pc, matches, calls, prompts, answers,
                   new_df_start, old_df_start, finderVars, selfVars, overlapVars>>

\* One candidate: update_fn is called with matches.index[0]
RowSingleMatch ==
    /\ pc = "iter" /\ pos \in NewIndex
    /\ row.action \notin {"Delete", "Duplicate"}
    /\ Cardinality(row_matches) = 1
    /\ LET old_index == SetMin(row_matches)
       IN  /\ new_df' = report_findings_lm(new_df, pos, old_index)
           /\ old_df' = report_findings_mint(new_df', pos, old_df, old_index)
           /\ calls' = Append(calls, <<pos, old_index>>)
    /\ evals' = Evaluated
    /\ pos' = pos + 1
    /\ UNCHANGED <<old_df_copy, pc, matches, prompts, answers, new_df_start,
                   old_df_start, finderVars, selfVars, overlapVars>>

\* Several candidates: they are printed and the human is asked
RowPrompt ==
    /\ pc = "iter" /\ pos \in NewIndex
    /\ row.action \notin {"Delete", "Duplicate"}
    /\ Cardinality(row_matches) > 1
    /\ matches' = row_matches
    /\ evals' = Evaluated
    /\ prompts' = Append(prompts, pos)
    /\ pc' = "prompt"
    /\ UNCHANGED <<new_df, old_df, old_df_copy, pos, calls, answers,
                   new_df_start, old_df_start, finderVars, selfVars, overlapVars>>

\* Mutant: a confirmation removes every displayed candidate from the working
\* copy
PromptAnswer_drops_shown(user_response) ==
    /\ pc = "prompt"
    /\ answers' = Append(answers, [src |-> pos, shown |-> matches,
                                   copy |-> old_df_copy,
                                   response |-> user_response])
    /\ IF user_response = "" \/ is_int(user_response)
       THEN LET old_index == IF user_response = "" THEN SetMax(matches)
                             ELSE int(user_response)
            IN  /\ new_df' = report_findings_lm(new_df, pos, old_index)
                /\ old_df' = report_findings_mint(new_df', pos, old_df,
                                                  old_index)
                /\ calls' = Append(calls, <<pos, old_index>>)
                /\ IF old_index \in old_df_copy
                   THEN /\ old_df_copy' = old_df_copy \ matches
                        /\ pc' = "iter"
                        /\ pos' = pos + 1
                        /\ matches' = {}
                   ELSE /\ pc' = "KeyError"
                        /\ UNCHANGED <<old_df_copy, pos, matches>>
       ELSE /\ new_df' = [new_df EXCEPT ![pos].action = "Investigate"]
            /\ pc' = "iter"
            /\ pos' = pos + 1
            /\ matches' = {}
            /\ UNCHANGED <<old_df, old_df_copy, calls>>
    /\ UNCHANGED <<evals, prompts, new_df_start, old_df_start, finderVars,
                   selfVars, overlapVars>>

\* Mutant: the ValueError handler also drops the default candidate from the
\* working copy
PromptAnswer_none_drops(user_response) ==
    /\ pc = "prompt"
    /\ answers' = Append(answers, [src |-> pos, shown |-> matches,
                                   copy |-> old_df_copy,
                                   response |-> user_response])
    /\ IF user_response = "" \/ is_int(user_response)
       THEN LET old_index == IF user_response = "" THEN SetMax(matches)
                             ELSE int(user_response)
            IN  /\ new_df' = report_findings_lm(new_df, pos, old_index)
                /\ old_df' = report_findings_mint(new_df', pos, old_df,
                                                  old_index)
                /\ calls' = Append(calls, <<pos, old_index>>)
                /\ IF old_index \in old_df_copy
                   THEN /\ old_df_copy' = old_df_copy \ {old_index}
                        /\ pc' = "iter"
                        /\ pos' = pos + 1
                        /\ matches' = {}
                   ELSE /\ pc' = "KeyError"
                        /\ UNCHANGED <<old_df_copy, pos, matches>>
       ELSE /\ new_df' = [new_df EXCEPT ![pos].action = "Investigate"]
            /\ old_df_copy' = old_df_copy \ {SetMax(matches)}
            /\ pc' = "iter"
            /\ pos' = pos + 1
            /\ matches' = {}
            /\ UNCHANGED <<old_df, calls>>
    /\ UNCHANGED <<evals, prompts, new_df_start, old_df_start, finderVars,
                   selfVars, overlapVars>>

\* Mutant: the ValueError handler leaves the row unmarked
PromptAnswer_none_unmarked(user_response) ==
    /\ pc = "prompt"
    /\ answers' = Append(answers, [src |-> pos, shown |-> matches,
                                   copy |-> old_df_copy,
                                   response |-> user_response])
    /\ IF user_response = "" \/ is_int(user_response)
       THEN LET old_index == IF user_response = "" THEN SetMax(matches)
                             ELSE int(user_response)
            IN  /\ new_df' = report_findings_lm(new_df, pos, old_index)
                /\ old_df' = report_findings_mint(new_df', pos, old_df,
                                                  old_index)
                /\ calls' = Append(calls, <<pos, old_index>>)
                /\ IF old_index \in old_df_copy
                   THEN /\ old_df_copy' = old_df_copy \ {old_index}
                        /\ pc' = "iter"
                        /\ pos' = pos + 1
                        /\ matches' = {}
                   ELSE /\ pc' = "KeyError"
                        /\ UNCHANGED <<old_df_copy, pos, matches>>
       ELSE /\ pc' = "iter"
            /\ pos' = pos + 1
            /\ matches' = {}
            /\ UNCHANGED <<new_df, old_df, old_df_copy, calls>>
    /\ UNCHANGED <<evals, prompts, new_df_start, old_df_start, finderVars, selfVars, overlapVars>>

\* The human's response: "" takes the last candidate, an integer is taken as
\* a label of old_df, anything else raises ValueError in int().  drop() of a
\* label old_df_copy lacks raises KeyError, which nothing catches.
PromptAnswer(user_response) ==
    /\ pc = "prompt"
    /\ answers' = Append(answers, [src |-> pos, shown |-> matches,
                                   copy |-> old_df_copy,
                                   response |-> user_response])
    /\ IF user_response = "" \/ is_int(user_response)
       THEN LET old_index == IF user_response = "" THEN SetMax(matches)
                             ELSE int(user_response)
            IN  /\ new_df' = report_findings_lm(new_df, pos, old_index)
                /\ old_df' = report_findings_mint(new_df', pos, old_df,
                                                  old_index)
                /\ calls' = Append(calls, <<pos, old_index>>)
                /\ IF old_index \in old_df_copy
                   THEN /\ old_df_copy' = old_df_copy \ {old_index}
                        /\ pc' = "iter"
                        /\ pos' = pos + 1
                        /\ matches' = {}
                   ELSE /\ pc' = "KeyError"
                        /\ UNCHANGED <<old_df_copy, pos, matches>>
       ELSE /\ new_df' = [new_df EXCEPT ![pos].action = "Investigate"]
            /\ pc' = "iter"
            /\ pos' = pos + 1
            /\ matches' = {}
            /\ UNCHANGED <<old_df, old_df_copy, calls>>
    /\ UNCHANGED <<evals, prompts, new_df_start, old_df_start, finderVars, selfVars, overlapVars>>

\* All rows examined: (new_df, old_df) is returned
Return ==
    /\ pc = "iter" /\ pos = MaxNew + 1
    /\ pc' = "done"
    /\ UNCHANGED <<new_df, old_df, old_df_copy, pos, matches, evals, calls,
                   prompts, answers, new_df_start, old_df_start, finderVars, selfVars, overlapVars>>

Next ==
    \/ RowSkipped
    \/ RowInvestigate
    \/ RowSingleMatch
    \/ RowPrompt
    \/ \E user_response \in Responses : PromptAnswer(user_response)
    \/ Return

Spec == Init /\ [][Next]_vars

(***************************************************************************)
(* The two selections of find_duplicates applied to one source row and a   *)
(* one-row old_df, over every combination of the inputs below              *)
(***************************************************************************)
FinderRowAccounts ==
    {ChaseChecking, ChaseCheckingPadded, chase_checking, chase_chk, Savings}

FinderOldAccounts ==
    {Chk1234, chk1234_padded, ChaseChk, chase_chk, ChaseChecking, Savings,
     savings_padded}

FinderRowAmounts == {-4250, 0, 4250}

FinderOldAmounts == {-4250, 0, 4250}

FinderOldDates == {8, 9, 10, 17, 18}

FinderLookbacks == {-1, 0, 1}

FinderLookaheads == {0, 7}

FinderTables == {NoTable, AliasTable}

FinderOldFrame(old_type, date, amount, type, account) ==
    0 :> (IF old_type = "mint"
          THEN MintRow(date, amount, type, account, NoAction, NoRelated)
          ELSE LunchmoneyOldRow(date, amount, account))

InitFinder ==
    /\ \E old_type \in {"lunchmoney", "mint"},
          account \in FinderRowAccounts, amount \in FinderRowAmounts,
          o_account \in FinderOldAccounts, o_amount \in FinderOldAmounts,
          o_date \in FinderOldDates, o_type \in {"debit", "credit"},
          lookback_days \in FinderLookbacks,
          lookahead_days \in FinderLookaheads,
          acct_name_df \in FinderTables :
            f_in = [row |-> [date |-> 10, amount |-> amount,
                             account_display_name |-> account],
                    old_df |-> FinderOldFrame(old_type, o_date, o_amount,
                                              o_type, o_account),
                    old_type |-> old_type,
                    lookback_days |-> lookback_days,
                    lookahead_days |-> lookahead_days,
                    acct_name_df |-> acct_name_df]
    /\ f_stage = "input"
    /\ f_first = {}
    /\ f_kept = {}
    /\ FdOff
    /\ SelfOff
    /\ OverlapOff

\* lines 86-106 of find_duplicates
SelectOnAmountDate ==
    /\ f_stage = "input"
    /\ f_first' = amount_date_matches(f_in.old_df, f_in.row,
                                      f_in.lookback_days, f_in.lookahead_days,
                                      f_in.old_type)
    /\ f_stage' = "selected"
    /\ UNCHANGED <<f_in, f_kept, fdVars, selfVars, overlapVars>>

\* filter_matches_by_account on the whole one-row frame
FilterOnAccount ==
    /\ f_stage = "selected"
    /\ ~filter_raises_KeyError(f_in.old_df, f_in.row.account_display_name,
                               old_account_field(f_in.old_type),
                               f_in.acct_name_df)
    /\ f_kept' = filter_matches_by_account(f_in.old_df,
                                           f_in.row.account_display_name,
                                           old_account_field(f_in.old_type),
                                           f_in.acct_name_df)
    /\ f_stage' = "filtered"
    /\ UNCHANGED <<f_in, f_first, fdVars, selfVars, overlapVars>>

FilterRaises ==
    /\ f_stage = "selected"
    /\ filter_raises_KeyError(f_in.old_df, f_in.row.account_display_name,
                              old_account_field(f_in.old_type),
                              f_in.acct_name_df)
    /\ f_stage' = "KeyError"
    /\ UNCHANGED <<f_in, f_first, f_kept, fdVars, selfVars, overlapVars>>

NextFinder == SelectOnAmountDate \/ FilterOnAccount \/ FilterRaises

SpecFinder == InitFinder /\ [][NextFinder]_vars

(***************************************************************************)
(* lib/find_and_process_dups.py: the duplicate detector over one set of    *)
(* Lunch Money transactions, and the tags it sends to Lunch Money          *)
(***************************************************************************)
LOOKBACK_LM_DUP_DAYS == 7

\* The tag names the detector reads and writes
NotDuplicate == <<"N","o","t","-","D","u","p","l","i","c","a","t","e">>

SkipDupCheck == <<"S","k","i","p","D","u","p","C","h","e","c","k">>

DuplicateTag == <<"D","u","p","l","i","c","a","t","e">>

\* A tag of the user's own
OtherTag == <<"T","r","i","p">>

not_duplicate_tags == {NotDuplicate, SkipDupCheck}

\* any(tag["name"] in not_duplicate_tags for tag in tags)
has_skip_tag(tags) == \E k \in 1..Len(tags) : tags[k] \in not_duplicate_tags

\* ",".join(names)
RECURSIVE str_join(_)
str_join(names) ==
    IF Len(names) = 0 THEN <<>>
    ELSE IF Len(names) = 1 THEN names[1]
    ELSE names[1] \o <<",">> \o str_join(Tail(names))

\* text.split(",")
RECURSIVE str_split(_)
str_split(text) ==
    LET commas == {i \in 1..Len(text) : text[i] = ","}
    IN  IF commas = {} THEN <<text>>
        ELSE <<SubSeq(text, 1, SetMin(commas) - 1)>>
             \o str_split(SubSeq(text, SetMin(commas) + 1, Len(text)))

\* sub in text
str_contains(text, sub) ==
    \E i \in 0..(Len(text) - Len(sub)) : SubSeq(text, i + 1, i + Len(sub)) = sub

SeqRange(s) == {s[k] : k \in 1..Len(s)}

\* The update object lunchmoney_delete_transaction builds
delete_update_obj(existing_tag_names) ==
    IF existing_tag_names # <<>>
    THEN "tags" :> str_split(existing_tag_names \o <<",">> \o DuplicateTag)
    ELSE "tags" :> <<DuplicateTag>>

\* The text typed for a new payee or note
NewText == <<"x">>

\* The payee or notes entry of interactive_tag_non_dup's update object
non_dup_text_obj(resp) ==
    IF str_lower(resp) = <<"p">> THEN "payee" :> NewText
    ELSE IF str_lower(resp) = <<"n">> THEN "notes" :> NewText
    ELSE <<>>

\* Mutant: the tags sent are Not-Duplicate alone, whatever the row had
non_dup_tags_obj_bare(match_tags) ==
    IF ~str_contains(match_tags, NotDuplicate)
    THEN "tags" :> <<NotDuplicate>>
    ELSE <<>>

\* The tags entry of interactive_tag_non_dup's update object
non_dup_tags_obj(match_tags) ==
    IF ~str_contains(match_tags, NotDuplicate)
    THEN IF match_tags # <<>>
         THEN LET updated_tags == match_tags \o <<",">> \o NotDuplicate
                  pieces == IF "," \in SeqRange(updated_tags)
                            THEN str_split(updated_tags)
                            ELSE updated_tags
              IN  "tags" :> (IF SkipDupCheck \in SeqRange(pieces)
                             THEN SelectSeq(pieces,
                                            LAMBDA tag : tag # SkipDupCheck)
                             ELSE pieces)
         ELSE "tags" :> <<NotDuplicate>>
    ELSE <<>>

\* lunchmoney_update_transaction: Lunch Money replaces the fields it is sent
store_after_update(store, id, transaction_fields) ==
    IF "tags" \in DOMAIN transaction_fields
    THEN [store EXCEPT ![id] = transaction_fields["tags"]]
    ELSE store

\* df["account_display_name"].unique(): the names in order of appearance
unique_accounts(df) ==
    LET names == {df[l].account_display_name : l \in DOMAIN df}
        first(a) == SetMin({l \in DOMAIN df : df[l].account_display_name = a})
    IN  CHOOSE s \in [1..Cardinality(names) -> names] :
            \A i, j \in 1..Cardinality(names) : i < j => first(s[i]) < first(s[j])

\* Mutant: the rows are sorted without being restricted to the account
df_to_search_all(df, account_name) ==
    CHOOSE s \in [1..Cardinality(DOMAIN df) -> DOMAIN df] :
        \A i, j \in 1..Cardinality(DOMAIN df) : i < j =>
            \/ df[s[i]].date > df[s[j]].date
            \/ df[s[i]].date = df[s[j]].date /\ s[i] < s[j]

\* Mutant: the account's rows are sorted earliest first
df_to_search_ascending(df, account_name) ==
    LET labels == {l \in DOMAIN df : df[l].account_display_name = account_name}
    IN  CHOOSE s \in [1..Cardinality(labels) -> labels] :
            \A i, j \in 1..Cardinality(labels) : i < j =>
                \/ df[s[i]].date < df[s[j]].date
                \/ df[s[i]].date = df[s[j]].date /\ s[i] < s[j]

\* df[df["account_display_name"] == account_name].sort_values(by="date",
\* ascending=False): latest first, rows of one date in the order of df
df_to_search(df, account_name) ==
    LET labels == {l \in DOMAIN df : df[l].account_display_name = account_name}
    IN  CHOOSE s \in [1..Cardinality(labels) -> labels] :
            \A i, j \in 1..Cardinality(labels) : i < j =>
                \/ df[s[i]].date > df[s[j]].date
                \/ df[s[i]].date = df[s[j]].date /\ s[i] < s[j]

\* Mutant: the rows of df_copy with the row's amount, whatever their date
same_amount_any_date(df, copy, index, lookback_days) ==
    {l \in copy : df[l].amount = df[index].amount}

\* lines 55-60: the rows of df_copy with the row's amount, dated no earlier
\* than lookback_days before it
same_amount_in_window(df, copy, index, lookback_days) ==
    {l \in copy : /\ df[l].amount = df[index].amount
                  /\ df[l].date >= df[index].date - lookback_days}

\* Mutant: the candidates are displayed whatever their tags
group_candidates_unfiltered(df, copy, index, lookback_days) ==
    same_amount_in_window(df, copy, index, lookback_days)

\* lines 63-74: a row carrying a skip tag is grouped only with rows without
group_candidates(df, copy, index, lookback_days) ==
    LET found == same_amount_in_window(df, copy, index, lookback_days)
    IN  IF found # {} /\ has_skip_tag(df[index].tags)
        THEN {l \in found : ~has_skip_tag(df[l].tags)}
        ELSE found

\* lines 77-85: the row, then its candidates in frame order, tags as text
match_row(df, l) == [index |-> l, id |-> df[l].id, tags |-> str_join(df[l].tags)]

group_rows(df, order, index, cands) ==
    <<match_row(df, index)>>
    \o [k \in 1..Cardinality(cands) |->
          match_row(df, SelectSeq(order, LAMBDA l : l \in cands)[k])]

matches_index(rows) == {rows[k].index : k \in 1..Len(rows)}

matches_loc(rows, label) == rows[CHOOSE k \in 1..Len(rows) : rows[k].index = label]

matches_drop(rows, label) == SelectSeq(rows, LAMBDA r : r.index # label)

\* The transactions a fetch may return
TxLabels == 0..(MaxTx - 1)

TxRecords ==
    [account : {ChaseChecking}, date : {12, 13, 20}, amount : {-4250},
     tags : {<<>>, <<NotDuplicate>>}]
    \cup [account : {ChaseChecking}, date : {20}, amount : {-1999},
          tags : {<<>>}]
    \cup [account : {Savings}, date : {20}, amount : {-4250},
          tags : {<<>>, <<NotDuplicate>>}]
    \cup [account : {ChaseChecking}, date : {13}, amount : {-4250},
          tags : {<<OtherTag>>}]

\* What the human may type at the two prompts of the detector
DupResponses == {"", "n"} \cup {ToString(n) : n \in 0..MaxTx}

TagResponses == {<<>>, <<"P">>, <<"n">>}

\* find_duplicate_transactions is entered with the frame just fetched: the
\* rows labelled 0.., each with the tags Lunch Money holds for it
InitSelf ==
    /\ \E recs \in [TxLabels -> TxRecords] :
          /\ tx_df = [l \in TxLabels |->
                        [id |-> 200 + l, date |-> recs[l].date,
                         amount |-> recs[l].amount,
                         account_display_name |-> recs[l].account,
                         tags |-> recs[l].tags]]
          /\ tx_store = [i \in {200 + l : l \in TxLabels} |-> recs[i - 200].tags]
    /\ run = 1
    /\ account_names = unique_accounts(tx_df)
    /\ acct_pos = 0
    /\ df_order = <<>>
    /\ row_pos = 0
    /\ df_copy = {}
    /\ deleted_indices = {}
    /\ dup_matches = <<>>
    /\ tag_pos = 0
    /\ ids_to_delete = <<>>
    /\ dup_pc = "account"
    /\ tx_writes = <<>>
    /\ shown = <<>>
    /\ none_groups = <<>>
    /\ FdOff
    /\ FinderOff
    /\ OverlapOff

\* The row the inner loop is at
dup_index_of_row == df_order[row_pos]

displayed(rows) == [run |-> run, src |-> dup_index_of_row,
                    group |-> matches_index(rows)]

\* Mutant: each account starts from an empty list of ids
NextAccount_fresh_list ==
    /\ dup_pc = "account"
    /\ acct_pos < Len(account_names)
    /\ acct_pos' = acct_pos + 1
    /\ df_order' = df_to_search(tx_df, account_names[acct_pos + 1])
    /\ df_copy' = SeqRange(df_order')
    /\ deleted_indices' = {}
    /\ row_pos' = 1
    /\ dup_pc' = "iter"
    /\ ids_to_delete' = <<>>
    /\ UNCHANGED <<tx_store, tx_df, run, account_names, dup_matches, tag_pos,
                   tx_writes, shown, none_groups, fdVars, finderVars, overlapVars>>

\* lines 28-36 and 47-48: the next account's rows, sorted, and their copy
NextAccount ==
    /\ dup_pc = "account"
    /\ acct_pos < Len(account_names)
    /\ acct_pos' = acct_pos + 1
    /\ df_order' = df_to_search(tx_df, account_names[acct_pos + 1])
    /\ df_copy' = SeqRange(df_order')
    /\ deleted_indices' = {}
    /\ row_pos' = 1
    /\ dup_pc' = "iter"
    /\ UNCHANGED <<tx_store, tx_df, run, account_names, dup_matches, tag_pos,
                   ids_to_delete, tx_writes, shown, none_groups,
                   fdVars, finderVars, overlapVars>>

\* line 130: the rows of the account are exhausted
AccountDone ==
    /\ dup_pc = "iter"
    /\ row_pos > Len(df_order)
    /\ dup_pc' = "account"
    /\ UNCHANGED <<tx_store, tx_df, run, account_names, acct_pos, df_order,
                   row_pos, df_copy, deleted_indices, dup_matches, tag_pos,
                   ids_to_delete, tx_writes, shown, none_groups,
                   fdVars, finderVars, overlapVars>>

\* line 37: every account was searched
ReturnIds ==
    /\ dup_pc = "account"
    /\ acct_pos = Len(account_names)
    /\ dup_pc' = "returned"
    /\ UNCHANGED <<tx_store, tx_df, run, account_names, acct_pos, df_order,
                   row_pos, df_copy, deleted_indices, dup_matches, tag_pos,
                   ids_to_delete, tx_writes, shown, none_groups,
                   fdVars, finderVars, overlapVars>>

\* lines 51-52: a row declared a duplicate earlier is passed over
RowDeleted ==
    /\ dup_pc = "iter"
    /\ row_pos <= Len(df_order)
    /\ dup_index_of_row \in deleted_indices
    /\ row_pos' = row_pos + 1
    /\ UNCHANGED <<tx_store, tx_df, run, account_names, acct_pos, df_order,
                   df_copy, deleted_indices, dup_matches, tag_pos,
                   ids_to_delete, dup_pc, tx_writes, shown, none_groups,
                   fdVars, finderVars, overlapVars>>

\* The candidates of the row the loop is at, from the copy without the row
row_candidates ==
    group_candidates(tx_df, df_copy \ {dup_index_of_row}, dup_index_of_row,
                     LOOKBACK_LM_DUP_DAYS)

\* lines 53-74: the row leaves the copy; nothing is left to show for it
RowNoGroup ==
    /\ dup_pc = "iter"
    /\ row_pos <= Len(df_order)
    /\ dup_index_of_row \notin deleted_indices
    /\ row_candidates = {}
    /\ df_copy' = df_copy \ {dup_index_of_row}
    /\ row_pos' = row_pos + 1
    /\ UNCHANGED <<tx_store, tx_df, run, account_names, acct_pos, df_order,
                   deleted_indices, dup_matches, tag_pos, ids_to_delete,
                   dup_pc, tx_writes, shown, none_groups, fdVars, finderVars, overlapVars>>

\* lines 53-109: the row leaves the copy; it is displayed with its candidates
\* and the human is asked for the index of a duplicate
RowDisplay ==
    /\ dup_pc = "iter"
    /\ row_pos <= Len(df_order)
    /\ dup_index_of_row \notin deleted_indices
    /\ row_candidates # {}
    /\ df_copy' = df_copy \ {dup_index_of_row}
    /\ dup_matches' = group_rows(tx_df, df_order, dup_index_of_row,
                                 row_candidates)
    /\ shown' = Append(shown, displayed(dup_matches'))
    /\ dup_pc' = "prompt"
    /\ UNCHANGED <<tx_store, tx_df, run, account_names, acct_pos, df_order,
                   row_pos, deleted_indices, tag_pos, ids_to_delete,
                   tx_writes, none_groups, fdVars, finderVars, overlapVars>>

\* lines 109-112: an integer that is neither the row's label nor a label on
\* display: "Invalid entry try again." and the prompt is issued again
AnswerInvalid(user_response) ==
    /\ dup_pc \in {"prompt", "reprompt"}
    /\ is_int(user_response)
    /\ int(user_response) # dup_index_of_row
    /\ int(user_response) \notin matches_index(dup_matches)
    /\ dup_pc' = "reprompt"
    /\ UNCHANGED <<tx_store, tx_df, run, account_names, acct_pos, df_order,
                   row_pos, df_copy, deleted_indices, dup_matches, tag_pos,
                   ids_to_delete, tx_writes, shown, none_groups,
                   fdVars, finderVars, overlapVars>>

\* line 114: the row's own label passes the test of line 110 after the row
\* was dropped from the display; matches.loc raises KeyError
AnswerRaises(user_response) ==
    /\ dup_pc \in {"prompt", "reprompt"}
    /\ is_int(user_response)
    /\ int(user_response) = dup_index_of_row
    /\ int(user_response) \notin matches_index(dup_matches)
    /\ dup_pc' = "KeyError"
    /\ UNCHANGED <<tx_store, tx_df, run, account_names, acct_pos, df_order,
                   row_pos, df_copy, deleted_indices, dup_matches, tag_pos,
                   ids_to_delete, tx_writes, shown, none_groups,
                   fdVars, finderVars, overlapVars>>

\* Mutant: a confirmation closes the group however many rows are left
AnswerDuplicate_ends_round(user_response) ==
    /\ dup_pc \in {"prompt", "reprompt"}
    /\ is_int(user_response)
    /\ int(user_response) \in matches_index(dup_matches)
    /\ LET dup_index == int(user_response)
           id_to_delete == matches_loc(dup_matches, dup_index).id
           update_obj ==
               delete_update_obj(matches_loc(dup_matches, dup_index).tags)
       IN  /\ ids_to_delete' = Append(ids_to_delete, id_to_delete)
           /\ tx_store' = store_after_update(tx_store, id_to_delete, update_obj)
           /\ tx_writes' = Append(tx_writes, [run |-> run, id |-> id_to_delete,
                                              fields |-> update_obj])
           /\ IF dup_index # dup_index_of_row
              THEN /\ deleted_indices' = deleted_indices \cup {dup_index}
                   /\ df_copy' = df_copy \ {dup_index}
              ELSE UNCHANGED <<deleted_indices, df_copy>>
           /\ dup_matches' = <<>>
           /\ dup_pc' = "iter"
           /\ row_pos' = row_pos + 1
           /\ UNCHANGED shown
    /\ UNCHANGED <<tx_df, run, account_names, acct_pos, df_order, tag_pos,
                   none_groups, fdVars, finderVars, overlapVars>>

\* Mutant: a confirmed duplicate leaves the display only; it stays in the copy
\* and in the iteration
AnswerDuplicate_display_only(user_response) ==
    /\ dup_pc \in {"prompt", "reprompt"}
    /\ is_int(user_response)
    /\ int(user_response) \in matches_index(dup_matches)
    /\ LET dup_index == int(user_response)
           id_to_delete == matches_loc(dup_matches, dup_index).id
           update_obj ==
               delete_update_obj(matches_loc(dup_matches, dup_index).tags)
           left == matches_drop(dup_matches, dup_index)
       IN  /\ ids_to_delete' = Append(ids_to_delete, id_to_delete)
           /\ tx_store' = store_after_update(tx_store, id_to_delete, update_obj)
           /\ tx_writes' = Append(tx_writes, [run |-> run, id |-> id_to_delete,
                                              fields |-> update_obj])
           /\ UNCHANGED <<deleted_indices, df_copy>>
           /\ IF Len(left) > 1
              THEN /\ dup_matches' = left
                   /\ shown' = Append(shown, displayed(left))
                   /\ dup_pc' = "prompt"
                   /\ UNCHANGED row_pos
              ELSE /\ dup_matches' = <<>>
                   /\ dup_pc' = "iter"
                   /\ row_pos' = row_pos + 1
                   /\ UNCHANGED shown
    /\ UNCHANGED <<tx_df, run, account_names, acct_pos, df_order, tag_pos,
                   none_groups, fdVars, finderVars, overlapVars>>

\* lines 113-124: the label of a displayed row: its id is collected, the
\* Duplicate tag is sent, and the row leaves the display (and the copy and the
\* iteration, unless it is the row the loop is at); the rest is displayed
\* again while more than one row is left
AnswerDuplicate(user_response) ==
    /\ dup_pc \in {"prompt", "reprompt"}
    /\ is_int(user_response)
    /\ int(user_response) \in matches_index(dup_matches)
    /\ LET dup_index == int(user_response)
           id_to_delete == matches_loc(dup_matches, dup_index).id
           update_obj ==
               delete_update_obj(matches_loc(dup_matches, dup_index).tags)
           left == matches_drop(dup_matches, dup_index)
       IN  /\ ids_to_delete' = Append(ids_to_delete, id_to_delete)
           /\ tx_store' = store_after_update(tx_store, id_to_delete, update_obj)
           /\ tx_writes' = Append(tx_writes, [run |-> run, id |-> id_to_delete,
                                              fields |-> update_obj])
           /\ IF dup_index # dup_index_of_row
              THEN /\ deleted_indices' = deleted_indices \cup {dup_index}
                   /\ df_copy' = df_copy \ {dup_index}
              ELSE UNCHANGED <<deleted_indices, df_copy>>
           /\ IF Len(left) > 1
              THEN /\ dup_matches' = left
                   /\ shown' = Append(shown, displayed(left))
                   /\ dup_pc' = "prompt"
                   /\ UNCHANGED row_pos
              ELSE /\ dup_matches' = <<>>
                   /\ dup_pc' = "iter"
                   /\ row_pos' = row_pos + 1
                   /\ UNCHANGED shown
    /\ UNCHANGED <<tx_df, run, account_names, acct_pos, df_order, tag_pos,
                   none_groups, fdVars, finderVars, overlapVars>>

\* lines 125-127: any other text ("" included): the rows on display are to
\* be tagged as not duplicates
AnswerNone(user_response) ==
    /\ dup_pc \in {"prompt", "reprompt"}
    /\ ~is_int(user_response)
    /\ none_groups' = Append(none_groups, displayed(dup_matches))
    /\ tag_pos' = 1
    /\ dup_pc' = "tagging"
    /\ UNCHANGED <<tx_store, tx_df, run, account_names, acct_pos, df_order,
                   row_pos, df_copy, deleted_indices, dup_matches,
                   ids_to_delete, tx_writes, shown, fdVars, finderVars, overlapVars>>

\* interactive_tag_non_dup, one displayed row: the payee or notes prompt, the
\* update sent to Lunch Money if there is anything to send, and SkipDupCheck
\* appended to the row's tag list through each frame that still holds the row;
\* after the last row the display is emptied (lines 128-129)
TagNonDup(resp) ==
    /\ dup_pc = "tagging"
    /\ LET match == dup_matches[tag_pos]
           update_obj == non_dup_text_obj(resp) @@ non_dup_tags_obj(match.tags)
           in_df == IF match.index \in SeqRange(df_order)
                    THEN <<SkipDupCheck>> ELSE <<>>
           in_df_copy == IF match.index \in df_copy
                         THEN <<SkipDupCheck>> ELSE <<>>
       IN  /\ IF DOMAIN update_obj # {}
              THEN /\ tx_store' = store_after_update(tx_store, match.id,
                                                     update_obj)
                   /\ tx_writes' = Append(tx_writes,
                                          [run |-> run, id |-> match.id,
                                           fields |-> update_obj])
              ELSE UNCHANGED <<tx_store, tx_writes>>
           /\ tx_df' = [tx_df EXCEPT ![match.index].tags =
                                         @ \o in_df \o in_df_copy]
    /\ IF tag_pos < Len(dup_matches)
       THEN /\ tag_pos' = tag_pos + 1
            /\ UNCHANGED <<dup_matches, dup_pc, row_pos>>
       ELSE /\ tag_pos' = 0
            /\ dup_matches' = <<>>
            /\ dup_pc' = "iter"
            /\ row_pos' = row_pos + 1
    /\ UNCHANGED <<run, account_names, acct_pos, df_order, df_copy,
                   deleted_indices, ids_to_delete, shown, none_groups,
                   fdVars, finderVars, overlapVars>>

NextSelf ==
    \/ NextAccount
    \/ AccountDone
    \/ ReturnIds
    \/ RowDeleted
    \/ RowNoGroup
    \/ RowDisplay
    \/ \E user_response \in DupResponses :
          \/ AnswerInvalid(user_response)
          \/ AnswerRaises(user_response)
          \/ AnswerDuplicate(user_response)
          \/ AnswerNone(user_response)
    \/ \E resp \in TagResponses : TagNonDup(resp)

SpecSelf == InitSelf /\ [][NextSelf]_vars

\* The detector is run again on the same transactions, fetched from the API
\* (no cached file of the request) with the tags Lunch Money now holds
Rerun ==
    /\ dup_pc = "returned"
    /\ run = 1
    /\ run' = 2
    /\ tx_df' = [l \in DOMAIN tx_df |->
                   [tx_df[l] EXCEPT !.tags = tx_store[tx_df[l].id]]]
    /\ account_names' = unique_accounts(tx_df')
    /\ acct_pos' = 0
    /\ df_order' = <<>>
    /\ row_pos' = 0
    /\ df_copy' = {}
    /\ deleted_indices' = {}
    /\ ids_to_delete' = <<>>
    /\ dup_pc' = "account"
    /\ UNCHANGED <<tx_store, dup_matches, tag_pos, tx_writes, shown,
                   none_groups, fdVars, finderVars, overlapVars>>

NextRerun == NextSelf \/ Rerun

SpecRerun == InitSelf /\ [][NextRerun]_vars

(***************************************************************************)
(* The detector when Lunch Money may reject an update: update_transaction  *)
(* of the client raises its HTTP error, which is no ValueError             *)
(***************************************************************************)
\* lines 113-118 with the write rejected: the id was appended at line 115, the
\* error leaves lunchmoney_delete_transaction and passes the `except
\* ValueError` of line 125; no caller catches it
DeleteRejected(user_response) ==
    /\ dup_pc \in {"prompt", "reprompt"}
    /\ is_int(user_response)
    /\ int(user_response) \in matches_index(dup_matches)
    /\ ids_to_delete' =
           Append(ids_to_delete,
                  matches_loc(dup_matches, int(user_response)).id)
    /\ dup_pc' = "HTTPError"
    /\ UNCHANGED <<tx_store, tx_df, run, account_names, acct_pos, df_order,
                   row_pos, df_copy, deleted_indices, dup_matches, tag_pos,
                   tx_writes, shown, none_groups, fdVars, finderVars, overlapVars>>

\* lines 162-166 with the write rejected: the error leaves
\* interactive_tag_non_dup, which was called from the handler of line 125
TagRejected(resp) ==
    /\ dup_pc = "tagging"
    /\ DOMAIN (non_dup_text_obj(resp)
                   @@ non_dup_tags_obj(dup_matches[tag_pos].tags)) # {}
    /\ dup_pc' = "HTTPError"
    /\ UNCHANGED <<tx_store, tx_df, run, account_names, acct_pos, df_order,
                   row_pos, df_copy, deleted_indices, dup_matches, tag_pos,
                   ids_to_delete, tx_writes, shown, none_groups,
                   fdVars, finderVars, overlapVars>>

NextReject ==
    \/ NextSelf
    \/ \E user_response \in DupResponses : DeleteRejected(user_response)
    \/ \E resp \in TagResponses : TagRejected(resp)

SpecReject == InitSelf /\ [][NextReject]_vars

(***************************************************************************)
(* update_local_transactions.py: find_overlap_transactions and the merge   *)
(* of main that uses its result                                            *)
(***************************************************************************)
\* The bounds of the runs: transactions fetched, transactions in the file
MaxFetched == 2

MaxLocal == 2

\* The user updatable fields compared, of the seven of fields_to_compare
fields_to_compare == {"payee", "notes"}

\* The ids of the local file first, then as many that it lacks as were fetched
OverlapIds == {300 + n : n \in 0..(MaxLocal + MaxFetched - 1)}

OverlapRows == [id : OverlapIds, payee : {"a", "b"}, notes : {"", "x"}]

\* What the human may type when asked which one is right
OverlapResponses == {<<>>, <<"n">>, <<"N">>, <<"e">>, <<"x">>}

\* main is at line 66: the local file was read and the fetched transactions
\* passed the checks of lines 60-61; ids are unique on either side
InitOverlap ==
    /\ ov_new \in [1..MaxFetched -> OverlapRows]
    /\ \A i, j \in 1..MaxFetched : i # j => ov_new[i].id # ov_new[j].id
    /\ ov_local \in [1..MaxLocal -> OverlapRows]
    /\ \A i \in 1..MaxLocal : ov_local[i].id = 300 + i - 1
    /\ ov_pc = "call"
    /\ ov_row = 0
    /\ ov_diff = {}
    /\ ov_result = [none |-> TRUE, index |-> {}]
    /\ ov_asked = <<>>
    /\ ov_writes = <<>>
    /\ FdOff
    /\ FinderOff
    /\ SelfOff

\* line 180: new_df[new_df["id"].isin(local_df["id"])], its labels
overlap_df ==
    {i \in 1..Len(ov_new) :
        \E k \in 1..Len(ov_local) : ov_local[k].id = ov_new[i].id}

\* line 185: the label of the local transaction with the row's id
corresponding_transaction(i) ==
    SetMin({k \in 1..Len(ov_local) : ov_local[k].id = ov_new[i].id})

\* lines 190-193
differences(i) ==
    {field \in fields_to_compare :
        ov_new[i][field] # ov_local[corresponding_transaction(i)][field]}

\* lines 180-183 with nothing to iterate: the return of line 228 is in the
\* body of the loop, so the function ends without one and returns None
OverlapEmpty ==
    /\ ov_pc = "call"
    /\ overlap_df = {}
    /\ ov_result' = [none |-> TRUE, index |-> {}]
    /\ ov_pc' = "returned"
    /\ UNCHANGED <<ov_new, ov_local, ov_row, ov_diff, ov_asked, ov_writes,
                   fdVars, finderVars, selfVars>>

\* lines 183-196 and 228: the first row of overlap_df equals its local
\* counterpart in the compared fields; overlap_df is returned at the end of
\* this first pass of the loop
OverlapFirstSame ==
    /\ ov_pc = "call"
    /\ overlap_df # {}
    /\ differences(SetMin(overlap_df)) = {}
    /\ ov_row' = SetMin(overlap_df)
    /\ ov_result' = [none |-> FALSE, index |-> overlap_df]
    /\ ov_pc' = "returned"
    /\ UNCHANGED <<ov_new, ov_local, ov_diff, ov_asked, ov_writes,
                   fdVars, finderVars, selfVars>>

\* lines 183-209: the first row of overlap_df differs; both versions are
\* printed and the human is asked which one is right
OverlapFirstDiffers ==
    /\ ov_pc = "call"
    /\ overlap_df # {}
    /\ differences(SetMin(overlap_df)) # {}
    /\ ov_row' = SetMin(overlap_df)
    /\ ov_diff' = differences(SetMin(overlap_df))
    /\ ov_asked' = Append(ov_asked, SetMin(overlap_df))
    /\ ov_pc' = "prompt"
    /\ UNCHANGED <<ov_new, ov_local, ov_result, ov_writes,
                   fdVars, finderVars, selfVars>>

\* lines 208-209: neither n nor e in any case: asked again
OverlapReprompt(response) ==
    /\ ov_pc \in {"prompt", "reprompt"}
    /\ str_lower(response) # <<"n">>
    /\ str_lower(response) # <<"e">>
    /\ ov_pc' = "reprompt"
    /\ UNCHANGED <<ov_new, ov_local, ov_row, ov_diff, ov_result, ov_asked,
                   ov_writes, fdVars, finderVars, selfVars>>

\* lines 210-213 and 228: "n": the local copy takes the fetched values
OverlapNewIsRight(response) ==
    /\ ov_pc \in {"prompt", "reprompt"}
    /\ str_lower(response) = <<"n">> \/ str_lower(response) = <<"e">>
    /\ response = <<"n">>
    /\ ov_local' =
           [ov_local EXCEPT ![corresponding_transaction(ov_row)] =
               [field \in DOMAIN @ |->
                   IF field \in ov_diff THEN ov_new[ov_row][field]
                   ELSE @[field]]]
    /\ ov_result' = [none |-> FALSE, index |-> overlap_df]
    /\ ov_pc' = "returned"
    /\ UNCHANGED <<ov_new, ov_row, ov_diff, ov_asked, ov_writes,
                   fdVars, finderVars, selfVars>>

\* lines 214-222 and 228: any other response that ended the loop of line 208
\* ("e", "E" and also "N"): Lunch Money is sent the local values
OverlapLocalIsRight(response) ==
    /\ ov_pc \in {"prompt", "reprompt"}
    /\ str_lower(response) = <<"n">> \/ str_lower(response) = <<"e">>
    /\ response # <<"n">>
    /\ ov_writes' =
           Append(ov_writes,
                  [id |-> ov_new[ov_row].id,
                   fields |-> [field \in ov_diff |->
                       ov_local[corresponding_transaction(ov_row)][field]]])
    /\ ov_result' = [none |-> FALSE, index |-> overlap_df]
    /\ ov_pc' = "returned"
    /\ UNCHANGED <<ov_new, ov_local, ov_row, ov_diff, ov_asked,
                   fdVars, finderVars, selfVars>>

\* main, lines 68-76: the fetched rows outside the overlap are appended to the
\* local transactions
MergeNew ==
    /\ ov_pc = "returned"
    /\ ~ov_result.none
    /\ ov_local' = ov_local
                     \o SelectSeq(ov_new,
                                  LAMBDA r : \A i \in ov_result.index :
                                                 ov_new[i] # r)
    /\ ov_pc' = "merged"
    /\ UNCHANGED <<ov_new, ov_row, ov_diff, ov_result, ov_asked, ov_writes,
                   fdVars, finderVars, selfVars>>

\* main, line 68: overlap_df.index on None raises AttributeError
MergeRaises ==
    /\ ov_pc = "returned"
    /\ ov_result.none
    /\ ov_pc' = "AttributeError"
    /\ UNCHANGED <<ov_new, ov_local, ov_row, ov_diff, ov_result, ov_asked,
                   ov_writes, fdVars, finderVars, selfVars>>

NextOverlap ==
    \/ OverlapEmpty
    \/ OverlapFirstSame
    \/ OverlapFirstDiffers
    \/ \E response \in OverlapResponses :
          \/ OverlapReprompt(response)
          \/ OverlapNewIsRight(response)
          \/ OverlapLocalIsRight(response)
    \/ MergeNew
    \/ MergeRaises

SpecOverlap == InitOverlap /\ [][NextOverlap]_vars

(***************************************************************************)
(* Properties of the compare_plaid_with_mint run (Spec)                    *)
(***************************************************************************)
CallsOf(i) == {calls[j][2] : j \in {n \in 1..Len(calls) : calls[n][1] = i}}

Prompted(i) == \E j \in 1..Len(prompts) : prompts[j] = i

C2_ZeroCandidatesInvestigate ==
    \A k \in 1..Len(evals) :
        evals[k].cands = {} =>
            /\ new_df[evals[k].src].action = "Investigate"
            /\ ~Prompted(evals[k].src)
            /\ CallsOf(evals[k].src) = {}

C2_Witness ==
    /\ \E k \in 1..Len(evals) : evals[k].first = {}
    /\ \E k \in 1..Len(evals) : evals[k].first # {} /\ evals[k].cands = {}

\* The account test as the specification words it
C6_AccountEquivalent(name, candidate_name, alias_table) ==
    LET canonical == str_strip(name)
        normal(n) == str_strip(str_lower(n))
    IN  IF alias_table.present /\ canonical \in DOMAIN alias_table.columns
        THEN \E k \in 1..Len(alias_table.columns[canonical]) :
                 normal(candidate_name) = normal(alias_table.columns[canonical][k])
        ELSE normal(candidate_name) = normal(name)

\* The three tests on one Mint row
C6_Qualifies(r, c) ==
    /\ c["Date"] \in (r.date - LOOKBACK_DAYS)..(r.date + LOOKAHEAD_DAYS)
    /\ c["Amount"] = Abs(r.amount)
    /\ \/ r.amount > 0 /\ c["Transaction Type"] = "debit"
       \/ r.amount < 0 /\ c["Transaction Type"] = "credit"
    /\ C6_AccountEquivalent(r.account_display_name, c["Account Name"],
                            AliasTable)

\* The end-to-end scenario: 100.00 on day 10 from "Chase Checking" against one
\* "CHK...1234" row of day 12 and "Savings" rows of day 9
C6_Scenario(k) ==
    LET r == new_df_start[evals[k].src]
        chk == {l \in evals[k].copy :
                   /\ old_df_start[l]["Account Name"] = Chk1234
                   /\ old_df_start[l]["Date"] = 12
                   /\ old_df_start[l]["Amount"] = 10000
                   /\ old_df_start[l]["Transaction Type"] = "debit"}
    IN  /\ r.account_display_name = ChaseChecking
        /\ r.date = 10 /\ r.amount = 10000
        /\ Cardinality(chk) = 1
        /\ evals[k].copy # chk
        /\ \A l \in evals[k].copy \ chk :
               /\ old_df_start[l]["Account Name"] = Savings
               /\ old_df_start[l]["Date"] = 9
               /\ old_df_start[l]["Amount"] = 10000

\* C6: the candidate set of every evaluated row is exactly the rows of the
\* working copy that pass the amount and direction test, the date window and
\* the account test, alias table included; the account filter is not invoked
\* when the first selection is empty; in the end-to-end scenario only the
\* "CHK...1234" row is a candidate and the callback is called without a prompt.
C6_CandidateSetIsFilteredWorkingSet ==
    \A k \in 1..Len(evals) :
        LET e == evals[k]
            r == new_df_start[e.src]
        IN  /\ e.cands = {l \in e.copy : C6_Qualifies(r, old_df_start[l])}
            /\ e.first = {} => ~e.filtered
            /\ C6_Scenario(k) =>
                   /\ \A l \in e.cands :
                          old_df_start[l]["Account Name"] = Chk1234
                   /\ Cardinality(e.cands) = 1
                   /\ CallsOf(e.src) = e.cands
                   /\ ~Prompted(e.src)

C6_Witness ==
    \E k \in 1..Len(evals) : C6_Scenario(k) /\ CallsOf(evals[k].src) # {}

\* Every response was "n", the default or the label of a displayed candidate
C8_AnswersValid ==
    \A j \in 1..Len(answers) :
        \/ answers[j].response \in {"n", ""}
        \/ /\ is_int(answers[j].response)
           /\ int(answers[j].response) \in answers[j].shown

\* C8: when the run has returned and every prompt was answered with a candidate
\* or with "n", every row that was not Duplicate or Delete at the start has
\* action Duplicate or Investigate.
C8_CompletedRunClassifiesAll ==
    (pc = "done" /\ C8_AnswersValid) =>
        \A i \in NewIndex :
            new_df_start[i].action \notin {"Duplicate", "Delete"} =>
                new_df[i].action \in {"Duplicate", "Investigate"}

C8_Witness ==
    /\ pc = "done"
    /\ C8_AnswersValid
    /\ \E j \in 1..Len(answers) : answers[j].response = "n"
    /\ \E j \in 1..Len(answers) : is_int(answers[j].response)

\* C9: in every state, a source row with action Duplicate and related_id c
\* has a comparison row c with action Match and related_id the source row's
\* id, so that no comparison row is linked from two source rows.
C9_LinksConsistentBothWays ==
    \A i \in NewIndex :
        new_df[i].action = "Duplicate" =>
            LET c == new_df[i].related_id
            IN  /\ c \in DOMAIN old_df
                /\ old_df[c]["action"] = "Match"
                /\ old_df[c]["related_id"] = new_df[i].id

\* C10: a comparison row that the callback was called with earlier in the run,
\* or that was classified when the run started, is in no later candidate set.
C10_ConfirmedNeverCandidateAgain ==
    \A k \in 1..Len(evals) :
        LET confirmed == {calls[j][2] : j \in 1..evals[k].ncalls}
            classified == {l \in DOMAIN old_df_start :
                              old_df_start[l]["action"] # NoAction}
        IN  evals[k].cands \cap (confirmed \cup classified) = {}

(***************************************************************************)
(* Properties of the two selections (SpecFinder)                           *)
(***************************************************************************)
FinderOldRow == f_in.old_df[0]

FinderOldDate == FinderOldRow[old_date_field(f_in.old_type)]

FinderOldAmount == FinderOldRow[old_amount_field(f_in.old_type)]

FinderOldAccount == FinderOldRow[old_account_field(f_in.old_type)]

\* The amount, and for Mint the transaction type, are the ones looked for
C3_AmountMatches ==
    /\ FinderOldAmount = amount_to_match(f_in.row, f_in.old_type)
    /\ f_in.old_type = "mint" =>
           FinderOldRow["Transaction Type"] = type_wanted(f_in.row)

\* C3: a comparison row with matching amount is selected if and only if its
\* date d satisfies date - lookback_days <= d <= date + lookahead_days, both
\* bounds included; with lookback 1 and lookahead 7, date - 1 and date + 7 are
\* selected and date - 2 and date + 8 are not.
C3_WindowInclusive ==
    (f_stage # "input" /\ C3_AmountMatches) =>
        LET d == FinderOldDate
            lo == f_in.row.date - f_in.lookback_days
            hi == f_in.row.date + f_in.lookahead_days
        IN  /\ (0 \in f_first) <=> (lo <= d /\ d <= hi)
            /\ (f_in.lookback_days = 1 /\ f_in.lookahead_days = 7) =>
                   /\ d \in {f_in.row.date - 1, f_in.row.date + 7} =>
                          0 \in f_first
                   /\ d \in {f_in.row.date - 2, f_in.row.date + 8} =>
                          0 \notin f_first

C3_Witness ==
    /\ f_stage = "selected"
    /\ C3_AmountMatches
    /\ f_in.lookback_days = 1 /\ f_in.lookahead_days = 7
    /\ FinderOldDate = f_in.row.date + 7
    /\ 0 \in f_first

\* C4: with old_type "mint", a comparison row inside the window is selected if
\* and only if its Amount is the absolute value of the source amount and its
\* Transaction Type is debit for a positive source amount, credit for a
\* negative one; -42.50 selects a 42.50 credit row and no 42.50 debit row.
C4_MintAmountAndDirection ==
    (/\ f_stage # "input"
     /\ f_in.old_type = "mint"
     /\ f_in.row.amount # 0
     /\ FinderOldDate \in (f_in.row.date - f_in.lookback_days)
                              ..(f_in.row.date + f_in.lookahead_days)) =>
        LET a == f_in.row.amount
            magnitude == IF a < 0 THEN 0 - a ELSE a
            type == FinderOldRow["Transaction Type"]
        IN  /\ (0 \in f_first) <=>
                   /\ FinderOldAmount = magnitude
                   /\ \/ a > 0 /\ type = "debit"
                      \/ a < 0 /\ type = "credit"
            /\ (a = -4250 /\ FinderOldAmount = 4250) =>
                   ((0 \in f_first) <=> type = "credit")

C4_Witness ==
    /\ f_stage = "selected"
    /\ f_in.old_type = "mint"
    /\ f_in.row.amount = -4250
    /\ FinderOldAmount = 4250
    /\ FinderOldRow["Transaction Type"] = "credit"
    /\ 0 \in f_first

NoneGroupsOf(n) ==
    {none_groups[k].group : k \in {j \in 1..Len(none_groups) :
                                      none_groups[j].run = n}}

ShownIn(n) == {shown[k].group : k \in {j \in 1..Len(shown) : shown[j].run = n}}

\* C7: after a first run in which the human answered "none" for a group, a
\* second run on the same transactions, fetched with the tags the first run
\* sent to Lunch Money, displays no group holding a record of that group and
\* collects none of the group's ids for deletion.
C7_NoneGroupSilentOnRerun ==
    \A g \in NoneGroupsOf(1) :
        /\ \A s \in ShownIn(2) : s \cap g = {}
        /\ run = 2 => \A k \in 1..Len(ids_to_delete) :
                          ids_to_delete[k] \notin {tx_df[l].id : l \in g}

(***************************************************************************)
(* Properties of the prompt of find_duplicates (Spec)                      *)
(***************************************************************************)
\* The response typed in the step just taken, with the candidates it was
\* typed against
LastAnswer == answers'[Len(answers')]

\* C11: at the prompt, a response that is no integer (and neither "" nor the
\* "n" of the prompt text), or an integer that is not the label of a displayed
\* candidate, leaves the run at the prompt: no callback, no change to either
\* frame, nothing removed from the working copy, no abort.
C11_InvalidResponseReprompts ==
    [][(pc = "prompt" /\ answers' # answers) =>
          ((\/ (~is_int(LastAnswer.response)
                /\ LastAnswer.response \notin {"", "n"})
            \/ (is_int(LastAnswer.response)
                /\ int(LastAnswer.response) \notin LastAnswer.shown)) =>
               /\ pc' = "prompt"
               /\ calls' = calls
               /\ new_df' = new_df
               /\ old_df' = old_df
               /\ old_df_copy' = old_df_copy)]_vars

\* C19: when the human answers "none" at the prompt (a text that is neither
\* empty nor an integer), the row is marked Investigate and nothing else
\* changes: no callback, old_df and the working copy are as they were.
C19_NoneAnswerInvestigates ==
    [][(/\ pc = "prompt"
        /\ answers' # answers
        /\ LastAnswer.response # ""
        /\ ~is_int(LastAnswer.response)) =>
           /\ new_df' = [new_df EXCEPT ![pos].action = "Investigate"]
           /\ calls' = calls
           /\ old_df' = old_df
           /\ old_df_copy' = old_df_copy
           /\ pc' = "iter"]_vars

C19_Witness ==
    /\ Len(answers) > 0
    /\ answers[Len(answers)].response = "n"
    /\ pc = "iter"
    /\ pos = answers[Len(answers)].src + 1
    /\ new_df[answers[Len(answers)].src].action = "Investigate"
    /\ old_df_copy = answers[Len(answers)].copy
    /\ Cardinality(answers[Len(answers)].shown) > 1

(***************************************************************************)
(* Further properties of the two selections (SpecFinder)                   *)
(***************************************************************************)
\* C18: with no alias table, or a source account that is not a column of it,
\* filter_matches_by_account returns, for either old_type, exactly the rows
\* whose account field (the one old_type names), stripped and lower-cased,
\* equals the source's stripped and lower-cased account name.
C18_FallbackIsNormalizedEquality ==
    (/\ f_stage \in {"filtered", "KeyError"}
     /\ ~account_in_table(f_in.row.account_display_name, f_in.acct_name_df)) =>
        /\ f_stage = "filtered"
        /\ (0 \in f_kept) <=>
               str_strip(str_lower(FinderOldAccount))
                   = str_strip(str_lower(f_in.row.account_display_name))

\* C20: called with a negative lookback_days or lookahead_days, find_duplicates
\* (and find_duplicate_transactions) stops with InvalidWindowConfiguration
\* before anything is selected, classified, tagged, removed or prompted for.
C20_NegativeWindowRejected ==
    (f_in.lookback_days < 0 \/ f_in.lookahead_days < 0) =>
        /\ f_stage \in {"input", "InvalidWindowConfiguration"}
        /\ f_first = {}
        /\ f_kept = {}

(***************************************************************************)
(* Properties of one run of the duplicate detector (SpecSelf)              *)
(***************************************************************************)
\* A step in which the human answers the detector's prompt with the text r
AnsweredWith(r) ==
    \/ AnswerInvalid(r)
    \/ AnswerRaises(r)
    \/ AnswerDuplicate(r)
    \/ AnswerNone(r)

\* C12: at the detector's prompt, a non-empty text that is no integer, or an
\* integer that is not the label of a displayed row, leaves the run at the
\* prompt in every round: no id collected, nothing sent to Lunch Money, no row
\* removed from the display or the copy, no abort.
C12_InvalidDupResponseReprompts ==
    [][\A r \in DupResponses :
          (/\ \/ (r # "" /\ ~is_int(r))
              \/ (is_int(r) /\ int(r) \notin matches_index(dup_matches))
           /\ AnsweredWith(r)) =>
              /\ dup_pc' = "reprompt"
              /\ UNCHANGED <<ids_to_delete, tx_writes, tx_store, tx_df,
                             df_copy, deleted_indices, dup_matches>>]_vars

\* The ids collected so far, and the group displayed by the step just taken
DeletedIds == SeqRange(ids_to_delete)

DuplicateWrittenFor(id) ==
    \E k \in 1..Len(tx_writes) :
        /\ tx_writes[k].id = id
        /\ "tags" \in DOMAIN tx_writes[k].fields
        /\ DuplicateTag \in SeqRange(tx_writes[k].fields["tags"])

NewlyShown == shown'[Len(shown')].group

\* C13: once the human has confirmed a record as a duplicate, a write with the
\* Duplicate tag has been sent for it, no later iteration examines it as the
\* row of the loop, and no group displayed afterwards holds it.
C13_ConfirmedDuplicateLeavesRun ==
    /\ [](\A id \in DeletedIds : DuplicateWrittenFor(id))
    /\ [][/\ (RowNoGroup \/ RowDisplay) =>
                 tx_df[dup_index_of_row].id \notin DeletedIds
          /\ shown' # shown =>
                 \A l \in NewlyShown : tx_df[l].id \notin SeqRange(ids_to_delete')
         ]_vars

\* A confirmed duplicate's turn in the iteration has come and gone
C13_Witness ==
    /\ dup_pc = "iter"
    /\ row_pos > Len(df_order)
    /\ \E l \in deleted_indices :
          /\ tx_df[l].id \in DeletedIds
          /\ DuplicateWrittenFor(tx_df[l].id)
          /\ \E k \in 1..Len(shown) : l \notin shown[k].group

\* The ids a write with the Duplicate tag was sent for
DuplicateWrittenIds ==
    {tx_writes[k].id : k \in {j \in 1..Len(tx_writes) :
        /\ "tags" \in DOMAIN tx_writes[j].fields
        /\ DuplicateTag \in SeqRange(tx_writes[j].fields["tags"])}}

\* C14: the list find_duplicate_transactions returns holds, once each, the ids
\* of the records confirmed as duplicates in any account of the run, and a
\* write with the Duplicate tag was sent for every one of them.
C14_ReturnedIdsAreTheConfirmed ==
    /\ \A i, j \in 1..Len(ids_to_delete) :
           i # j => ids_to_delete[i] # ids_to_delete[j]
    /\ DeletedIds \subseteq DuplicateWrittenIds
    /\ dup_pc = "returned" => DeletedIds = DuplicateWrittenIds

\* The run returned an id collected in the first of two accounts
C14_Witness ==
    /\ dup_pc = "returned"
    /\ Len(account_names) = 2
    /\ \E l \in DOMAIN tx_df :
          /\ tx_df[l].account_display_name = account_names[1]
          /\ tx_df[l].id \in DeletedIds

\* C15: no group is displayed with a candidate (a row other than the one being
\* examined) that carries Not-Duplicate or SkipDupCheck, whatever the tags of
\* the row being examined.
C15_SkipMarkedNeverCandidate ==
    [][shown' # shown =>
          \A l \in NewlyShown \ {dup_index_of_row} :
              ~has_skip_tag(tx_df[l].tags)]_vars

\* C17: the rows of a displayed group all have the same account name.
C17_GroupsWithinOneAccount ==
    \A k \in 1..Len(shown) :
        \A l, m \in shown[k].group :
            tx_df[l].account_display_name = tx_df[m].account_display_name

\* A group was displayed for a row while a row of another account has the
\* same amount and a date inside the row's window
C17_Witness ==
    \E k \in 1..Len(shown) :
        \E l \in DOMAIN tx_df :
            /\ tx_df[l].account_display_name
                   # tx_df[shown[k].src].account_display_name
            /\ tx_df[l].amount = tx_df[shown[k].src].amount
            /\ tx_df[l].date >= tx_df[shown[k].src].date - LOOKBACK_LM_DUP_DAYS
            /\ tx_df[l].date <= tx_df[shown[k].src].date
            /\ l \notin shown[k].group

\* The row interactive_tag_non_dup is at, and the write the step just taken sent
TaggedRow == dup_matches[tag_pos]

LastWrite == tx_writes'[Len(tx_writes')]

\* C16: after a "none" answer every row of the displayed group is handled in
\* turn and leaves its step skip-marked: unless its tags already held
\* Not-Duplicate, a write was sent with its tags plus Not-Duplicate (and then
\* Lunch Money holds its former tags plus Not-Duplicate); its in-memory tags
\* hold a skip tag; and no group displayed later in the run lies within a
\* group answered "none".
C16_NoneAnswerMarksGroup ==
    [][/\ dup_pc = "tagging" =>
             LET had == SeqRange(tx_df[TaggedRow.index].tags)
             IN  /\ has_skip_tag(tx_df'[TaggedRow.index].tags)
                 /\ SeqRange(tx_store'[TaggedRow.id])
                        = SeqRange(tx_store[TaggedRow.id]) \cup {NotDuplicate}
                 /\ IF NotDuplicate \in had
                    THEN /\ tx_store' = tx_store
                         /\ tx_writes' # tx_writes =>
                                "tags" \notin DOMAIN LastWrite.fields
                    ELSE /\ tx_writes' = Append(tx_writes, LastWrite)
                         /\ LastWrite.id = TaggedRow.id
                         /\ "tags" \in DOMAIN LastWrite.fields
                         /\ SeqRange(LastWrite.fields["tags"])
                                = (had \ {SkipDupCheck}) \cup {NotDuplicate}
       /\ shown' # shown =>
             \A k \in 1..Len(none_groups) :
                 ~(NewlyShown \subseteq none_groups[k].group)]_vars

\* A group answered "none" was tagged to its end; one of its rows had a tag of
\* the user's own, another already carried Not-Duplicate
C16_Witness ==
    /\ dup_pc = "iter"
    /\ Len(none_groups) > 0
    /\ LET g == none_groups[Len(none_groups)].group
       IN  /\ \A l \in g : /\ has_skip_tag(tx_df[l].tags)
                           /\ NotDuplicate \in SeqRange(tx_store[tx_df[l].id])
           /\ \E l \in g : /\ OtherTag \in SeqRange(tx_store[tx_df[l].id])
                           /\ \E k \in 1..Len(tx_writes) :
                                 tx_writes[k].id = tx_df[l].id
           /\ \E l \in g : /\ NotDuplicate \in SeqRange(tx_df[l].tags)
                           /\ \A k \in 1..Len(tx_writes) :
                                 tx_writes[k].id = tx_df[l].id =>
                                     "tags" \notin DOMAIN tx_writes[k].fields

(***************************************************************************)
(* Frame properties of find_duplicates (Spec)                              *)
(***************************************************************************)
\* The candidate a response confirms: "" stands for the last one displayed
ChosenBy(answer) ==
    IF answer.response = "" THEN SetMax(answer.shown)
    ELSE int(answer.response)

ConfirmsDisplayed(answer) ==
    \/ answer.response = ""
    \/ is_int(answer.response) /\ int(answer.response) \in answer.shown

\* C23: when the human confirms one of the displayed candidates at the prompt,
\* the callback is invoked once, with the chosen comparison row, and only that
\* row leaves the working copy; every other displayed candidate keeps its
\* action and related_id and stays in the working copy.
C23_ConfirmTouchesOnlyChosen ==
    [][(pc = "prompt" /\ answers' # answers /\ ConfirmsDisplayed(LastAnswer)) =>
          /\ calls' = Append(calls, <<pos, ChosenBy(LastAnswer)>>)
          /\ old_df_copy' = old_df_copy \ {ChosenBy(LastAnswer)}
          /\ \A l \in LastAnswer.shown \ {ChosenBy(LastAnswer)} :
                /\ l \in old_df_copy'
                /\ old_df'[l] = old_df[l]]_vars

C23_Witness ==
    /\ Len(answers) > 0
    /\ ConfirmsDisplayed(answers[Len(answers)])
    /\ pc = "iter"
    /\ pos = answers[Len(answers)].src + 1
    /\ calls[Len(calls)] = <<answers[Len(answers)].src,
                             ChosenBy(answers[Len(answers)])>>
    /\ ChosenBy(answers[Len(answers)]) \notin old_df_copy
    /\ \E l \in answers[Len(answers)].shown \ {ChosenBy(answers[Len(answers)])} :
          /\ l \in old_df_copy
          /\ old_df[l]["action"] = NoAction

\* The comparison rows some callback invocation was given
CalledWith == {calls[k][2] : k \in 1..Len(calls)}

\* C25: find_duplicates changes the comparison frame only through the
\* callback: at every point of the run, and so at its end, a comparison row
\* that no callback invocation was given is as it was when the run started,
\* action and related_id included, and no row has been added beside those the
\* callback was given.
C25_UnmatchedComparisonRowsUnchanged ==
    /\ \A l \in DOMAIN old_df_start :
          l \notin CalledWith => (l \in DOMAIN old_df /\ old_df[l] = old_df_start[l])
    /\ DOMAIN old_df \subseteq DOMAIN old_df_start \cup CalledWith

C25_Witness ==
    /\ pc = "done"
    /\ calls # <<>>
    /\ \E l \in DOMAIN old_df_start :
          /\ l \notin CalledWith
          /\ old_df_start[l]["action"] = "Match"
          /\ old_df[l] = old_df_start[l]
    /\ \E l \in DOMAIN old_df_start :
          l \in CalledWith /\ old_df[l] # old_df_start[l]

\* C30: filter_matches_by_account keeps a comparison row whose stripped,
\* lower-cased account name equals the source's stripped, lower-cased account
\* name, with or without an alias table and whether or not the table has a
\* column for the source's account.
C30_SameNameAlwaysKept ==
    (/\ f_stage \in {"filtered", "KeyError"}
     /\ str_strip(str_lower(FinderOldAccount))
            = str_strip(str_lower(f_in.row.account_display_name))) =>
        /\ f_stage = "filtered"
        /\ 0 \in f_kept

\* The same, for the calls that return and read the column old_type names
C30_SameNameKeptWhenReturned ==
    (/\ f_stage = "filtered"
     /\ str_strip(str_lower(FinderOldAccount))
            = str_strip(str_lower(f_in.row.account_display_name))) =>
        0 \in f_kept

(***************************************************************************)
(* Further properties of the self-set detector (SpecSelf)                  *)
(***************************************************************************)
\* C24: every candidate displayed for a row (a row of the group other than
\* the row being examined) has the row's amount and a date from the row's
\* date minus lookback_days up to the row's date, both included; the row
\* being examined is displayed once, never as a candidate of itself.
C24_CandidatesInLookbackWindow ==
    /\ \A k \in 1..Len(shown) :
          \A l \in shown[k].group \ {shown[k].src} :
              /\ tx_df[l].amount = tx_df[shown[k].src].amount
              /\ tx_df[shown[k].src].date - LOOKBACK_LM_DUP_DAYS <= tx_df[l].date
              /\ tx_df[l].date <= tx_df[shown[k].src].date
    /\ \A i, j \in 1..Len(dup_matches) :
          i # j => dup_matches[i].index # dup_matches[j].index
    /\ \A i \in 2..Len(dup_matches) :
          dup_matches[i].index # dup_index_of_row

\* A group was displayed whose candidate lies exactly lookback_days before the
\* row, while a row of the same account and amount one day earlier was left out
C24_Witness ==
    \E k \in 1..Len(shown) :
        /\ \E l \in shown[k].group :
              tx_df[l].date = tx_df[shown[k].src].date - LOOKBACK_LM_DUP_DAYS
        /\ \E l \in DOMAIN tx_df \ shown[k].group :
              /\ tx_df[l].account_display_name
                     = tx_df[shown[k].src].account_display_name
              /\ tx_df[l].amount = tx_df[shown[k].src].amount
              /\ tx_df[l].date = tx_df[shown[k].src].date
                                     - LOOKBACK_LM_DUP_DAYS - 1

\* The place of an account in the order of the outer loop
AccountPlace(name) ==
    CHOOSE i \in 1..Len(account_names) : account_names[i] = name

\* C26: the rows are examined in an order the input fixes: the loop is at one
\* account at a time and goes through all of that account's rows, each once,
\* a row before every row of an earlier date; the accounts before it are
\* finished and those after it untouched; so the prompts of a run are issued
\* account by account in the order of first appearance and, within an account,
\* from the latest date to the earliest.
C26_FixedTraversalOrder ==
    /\ \A i, j \in 1..Len(account_names) :
          i # j => account_names[i] # account_names[j]
    /\ dup_pc \in {"iter", "prompt", "reprompt", "tagging", "KeyError"} =>
          /\ acct_pos \in 1..Len(account_names)
          /\ SeqRange(df_order) =
                 {l \in DOMAIN tx_df :
                      tx_df[l].account_display_name = account_names[acct_pos]}
          /\ Len(df_order) = Cardinality(SeqRange(df_order))
          /\ \A i, j \in 1..Len(df_order) :
                 tx_df[df_order[i]].date > tx_df[df_order[j]].date => i < j
    /\ \A i, j \in 1..Len(shown) :
          (i < j /\ shown[i].run = shown[j].run) =>
              LET a == tx_df[shown[i].src]
                  b == tx_df[shown[j].src]
              IN  /\ AccountPlace(a.account_display_name)
                         <= AccountPlace(b.account_display_name)
                  /\ a.account_display_name = b.account_display_name =>
                         a.date >= b.date
    /\ \A k \in 1..Len(shown) :
          shown[k].run = run =>
              AccountPlace(tx_df[shown[k].src].account_display_name) <= acct_pos

\* Prompts were issued for a row and later for a row of an earlier date that
\* comes before it in the frame as it was passed in
C26_Witness ==
    /\ \E i, j \in 1..Len(shown) :
          /\ i < j
          /\ shown[i].src > shown[j].src
          /\ tx_df[shown[i].src].date > tx_df[shown[j].src].date
    /\ dup_pc = "returned"

\* The rows the selection on amount and date finds for the row the loop is at,
\* and those of them that carry no skip tag
RowWindow ==
    same_amount_in_window(tx_df, df_copy \ {dup_index_of_row},
                          dup_index_of_row, LOOKBACK_LM_DUP_DAYS)

RowWindowUnmarked == {l \in RowWindow : ~has_skip_tag(tx_df[l].tags)}

\* C27: when the row to examine carries Not-Duplicate or SkipDupCheck and
\* every row of its amount and date window carries one too, the loop moves to
\* the next row with no prompt, no write and no id collected; when some row of
\* the window carries neither, the row is displayed with exactly the rows of
\* the window that carry neither, and the human is prompted.
C27_SkipMarkedSource ==
    [][(/\ dup_pc = "iter"
        /\ row_pos <= Len(df_order)
        /\ dup_index_of_row \notin deleted_indices
        /\ has_skip_tag(tx_df[dup_index_of_row].tags)
        /\ row_pos' # row_pos \/ dup_pc' # dup_pc) =>
           IF RowWindowUnmarked = {}
           THEN /\ row_pos' = row_pos + 1
                /\ dup_pc' = "iter"
                /\ UNCHANGED <<shown, tx_writes, tx_store, tx_df,
                               ids_to_delete, none_groups, deleted_indices>>
           ELSE /\ dup_pc' = "prompt"
                /\ shown' = Append(shown,
                                   [run |-> run, src |-> dup_index_of_row,
                                    group |-> {dup_index_of_row}
                                                  \cup RowWindowUnmarked])
                /\ matches_index(dup_matches')
                       = {dup_index_of_row} \cup RowWindowUnmarked]_vars

\* A row tagged Not-Duplicate was passed over in silence although a tagged row
\* of its amount lay in its window, and a tagged row is on display with a
\* candidate that has no tag
C27_Witness ==
    /\ dup_pc = "prompt"
    /\ has_skip_tag(tx_df[dup_index_of_row].tags)
    /\ \E l \in matches_index(dup_matches) : ~has_skip_tag(tx_df[l].tags)
    /\ \E k \in 1..(row_pos - 1) :
          LET r == df_order[k]
          IN  /\ has_skip_tag(tx_df[r].tags)
              /\ r \notin deleted_indices
              /\ \A n \in 1..Len(shown) : shown[n].src # r
              /\ tx_writes = <<>>
              /\ ids_to_delete = <<>>
              /\ \E l \in SeqRange(df_order) \ {r} :
                    /\ has_skip_tag(tx_df[l].tags)
                    /\ tx_df[l].amount = tx_df[r].amount
                    /\ tx_df[l].date >= tx_df[r].date - LOOKBACK_LM_DUP_DAYS
                    /\ tx_df[l].date <= tx_df[r].date

\* The displays of one round: those of a run for one row being examined
RoundOf(n, src) == {k \in 1..Len(shown) : shown[k].run = n /\ shown[k].src = src}

\* The label whose id the step just taken collected
Confirmed ==
    CHOOSE l \in matches_index(dup_matches) :
        tx_df[l].id = ids_to_delete'[Len(ids_to_delete')]

\* C28: while a group is under decision at least two rows are on display and
\* they are the group displayed last; a confirmation takes exactly the chosen
\* row off the display and, while more than one row is left, displays the
\* rest and asks again; the detector moves on from a group only after a
\* confirmation that leaves one row or after a "none" answer; so the displays
\* of one round shrink by one row each and a round that started with k rows
\* has at most k-1 displays, each answered by at most one confirmation.
C28_RedisplayUntilOneLeft ==
    /\ [](/\ dup_pc \in {"prompt", "reprompt"} =>
                /\ Len(dup_matches) >= 2
                /\ shown[Len(shown)] = displayed(dup_matches)
          /\ \A k \in 1..Len(shown) : Cardinality(shown[k].group) >= 2
          /\ \A i, j \in 1..Len(shown) :
                (i < j /\ shown[i].run = shown[j].run
                       /\ shown[i].src = shown[j].src) =>
                    /\ shown[j].group \subseteq shown[i].group
                    /\ Cardinality(shown[j].group)
                           = Cardinality(shown[i].group) - (j - i)
          /\ \A k \in 1..Len(shown) :
                LET round == RoundOf(shown[k].run, shown[k].src)
                IN  Cardinality(round)
                        <= Cardinality(shown[SetMin(round)].group) - 1)
    /\ [][/\ (dup_pc \in {"prompt", "reprompt"}
              /\ ids_to_delete' # ids_to_delete) =>
                 LET left == matches_index(dup_matches) \ {Confirmed}
                 IN  /\ ids_to_delete' = Append(ids_to_delete,
                                                tx_df[Confirmed].id)
                     /\ IF Cardinality(left) > 1
                        THEN /\ dup_pc' = "prompt"
                             /\ matches_index(dup_matches') = left
                             /\ shown' = Append(shown,
                                                [run |-> run,
                                                 src |-> dup_index_of_row,
                                                 group |-> left])
                             /\ row_pos' = row_pos
                        ELSE /\ dup_pc' = "iter"
                             /\ row_pos' = row_pos + 1
                             /\ shown' = shown
          /\ (dup_pc \in {"prompt", "reprompt"} /\ dup_pc' = "iter") =>
                 /\ Len(dup_matches) = 2
                 /\ ids_to_delete' # ids_to_delete
          /\ dup_pc' = "tagging" =>
                 \/ dup_pc = "tagging"
                 \/ /\ dup_pc \in {"prompt", "reprompt"}
                    /\ none_groups' = Append(none_groups,
                                             displayed(dup_matches))
                    /\ ids_to_delete' = ids_to_delete
         ]_vars

\* A group of three rows took two confirmations: it was displayed again with
\* two rows after the first and closed with one row left after the second
C28_Witness ==
    /\ dup_pc = "iter"
    /\ Len(ids_to_delete) = 2
    /\ none_groups = <<>>
    /\ Len(shown) = 2
    /\ shown[1].src = shown[2].src
    /\ Cardinality(shown[1].group) = 3
    /\ Cardinality(shown[2].group) = 2

TagsWritten(k) == SeqRange(tx_writes[k].fields["tags"])

\* C29: SkipDupCheck is in no tag list sent to Lunch Money, and a write that
\* sends Duplicate for a record carries Not-Duplicate if an earlier write of
\* the run sent Not-Duplicate for that record.
C29_SkipMarkerNeverWritten ==
    /\ \A k \in 1..Len(tx_writes) :
          "tags" \in DOMAIN tx_writes[k].fields =>
              SkipDupCheck \notin TagsWritten(k)
    /\ \A j, k \in 1..Len(tx_writes) :
          (/\ j < k
           /\ tx_writes[j].run = tx_writes[k].run
           /\ tx_writes[j].id = tx_writes[k].id
           /\ "tags" \in DOMAIN tx_writes[j].fields
           /\ "tags" \in DOMAIN tx_writes[k].fields
           /\ NotDuplicate \in TagsWritten(j)
           /\ DuplicateTag \in TagsWritten(k)) =>
              NotDuplicate \in TagsWritten(k)

(***************************************************************************)
(* The detector and rejected writes (SpecReject)                           *)
(***************************************************************************)
\* The rows of the account being searched that are still to be examined
RowsToExamine ==
    {df_order[k] : k \in (row_pos + 1)..Len(df_order)} \ deleted_indices

\* C21: a write Lunch Money rejects does not end the run: the detector is
\* never stopped by the error, so the rows still to be examined get their
\* turn.
C21_RejectedWriteDoesNotAbort ==
    dup_pc # "HTTPError"

\* The run was stopped by a rejected write after an earlier write went
\* through, with rows of the account still to be examined
C21_AbortedWithRowsLeft ==
    /\ dup_pc = "HTTPError"
    /\ tx_writes # <<>>
    /\ RowsToExamine # {}

(***************************************************************************)
(* find_overlap_transactions (SpecOverlap)                                 *)
(***************************************************************************)
\* C22: when find_overlap_transactions has returned, the human has been asked
\* about every fetched transaction whose id is in the local data and that
\* differs from its local counterpart in a compared field, and the value
\* returned is the frame of all fetched transactions whose id is in the local
\* data, an empty frame when there are none.
C22_EveryOverlapExamined ==
    ov_pc \in {"returned", "merged", "AttributeError"} =>
        /\ ~ov_result.none
        /\ ov_result.index = overlap_df
        /\ \A i \in overlap_df :
              (\E field \in fields_to_compare :
                   ov_new[i][field] # ov_local[corresponding_transaction(i)][field])
                  => \E k \in 1..Len(ov_asked) : ov_asked[k] = i

\* The same for the fetches that overlap the local data: only the rows after
\* the first are at stake
C22_LaterOverlapsExamined ==
    (ov_pc = "returned" /\ overlap_df # {} /\ ov_asked = <<>>) =>
        \A i \in overlap_df : differences(i) = {}

=============================================================================
